---- MODULE Spec2Model ----
(***************************************************************************)
(* Model of immich-go's upload supervisor (app/upload/noui.go, runNoUI),   *)
(* of its shared scan-progress state (immichUpdate / getImmichPct) and of  *)
(* the root command's PersistentPreRunE (app/root/rootCmd.go).             *)
(*                                                                         *)
(* noui.go holds two versions of runNoUI: the first (lines 17-162) renders *)
(* only in the reporter's defer and on ticks, the second (lines 183-359)   *)
(* renders in every select case and again in the defer.  The variable      *)
(* `variant` fixes which of the two is running.                            *)
(*                                                                         *)
(* An error value is modelled as the set of the leaf errors it wraps:      *)
(* nil is {}, errors.New(m) is {m}, errors.Join(a, b) is a \cup b.         *)
(***************************************************************************)
EXTENDS Integers, Sequences, FiniteSets, TLC

VARIABLES
    \* ---- runNoUI ----
    variant,          \* 1: noui.go:17-162, 2: noui.go:183-359
    appOutput,        \* app.Output
    appNonInteractive,\* app.NonInteractive
    isJSONMode,       \* local isJSONMode
    isNonInteractive, \* local isNonInteractive
    cause,            \* context.Cause(ctx) of the derived context
    parentCancelled,  \* the caller's context has been cancelled
    stopProgress,     \* TRUE once close(stopProgress) ran
    closeCount,       \* number of close(stopProgress) calls
    rpPC,             \* reporting goroutine: "select", "parked", "woke_stop",
                      \* "woke_ctx", "tick", "defer", "done"
    rpRet,            \* value the reporting goroutine returns
    rpSaw,            \* what the reporter's select took last: "none", "stop", "ctx"
    ticks,            \* ticker.C deliveries consumed so far
    finalRenders,     \* renders performed after the reporter took stop / ctx.Done
    tickRenders,      \* periodic renders
    kinds,            \* kinds of output produced so far
    spinIdx,          \* spinner index (second version)
    lastRender,       \* what the most recent render showed, <<>> before the first
    assetsPC, albumsPC, browsePC,  \* phase tasks: "running", "done"
    assetsErr, albumsErr,          \* what the phase task returned
    groupChanSet,     \* groupChan has been assigned by the Browse task
    grpErr,           \* processGrp: first non-nil error of its tasks
    failSeq,          \* phases in the order in which they failed
    plPC,             \* pipeline goroutine
    plErr,            \* pipeline goroutine's local err
    plRet,            \* value the pipeline goroutine returns
    counts,           \* FileProcessor().Logger().GetCounts()
    groupsDone,       \* asset groups the upload loop has consumed
    uploadCalls,      \* calls of uc.uploadLoop
    finishingCalls,   \* calls of uc.finishing
    loopErr,          \* what uploadLoop returned
    finErr,           \* what finishing returned
    advisorySet,      \* the advisory cancel(errors.New(...)) was issued
    uiErr,            \* uiGrp: first non-nil error of its two goroutines
    mainPC,           \* runNoUI itself: "waiting", "returned", "exited"
    result,           \* runNoUI's return value
    causeAtReturn,    \* context.Cause(ctx) when the return value was computed
    \* ---- shared scan progress (immichUpdate / getImmichPct) ----
    currImmich, maxImmich,
    lastUpdate,       \* arguments of the most recent immichUpdate call
    pctSeq,           \* successive getImmichPct results
    updSeq,           \* the immichUpdate arguments each of them was computed after
    lock,             \* the mutex guarding the pair: TRUE while locked
    updPC,            \* immichUpdate's position: "idle", "curr", "max", "unlock"
    updArgs,          \* the (value, total) of the immichUpdate call in progress
    rdPC,             \* getImmichPct's position: "idle", "test", "curr", "max",
                      \* "unlock", "panic"
    rdTest,           \* the maxImmich that the test maxImmich > 0 read
    rdCurr,           \* the currImmich that the division read
    readSeq,          \* per result: the values its three loads gave
    \* ---- root command, PersistentPreRunE ----
    rootPC,           \* "start", "pre_done", "run_done"
    aOutput,          \* a.Output (--output)
    aNonInteractive,  \* a.NonInteractive
    niAtStart,        \* a.NonInteractive when PersistentPreRunE was entered
    flagChanged,      \* cmd.Flags().Changed("non-interactive")
    stdoutKind,       \* "tty", "pipe", "closed" (Stat fails)
    steps,            \* initialisation steps PersistentPreRunE has run, in order
    preErr,           \* what PersistentPreRunE returned
    cmdName,          \* cmd.Name() of the command that ran
    hasFileProcessor, \* a.FileProcessor() != nil
    fpCounters,       \* a.FileProcessor().GetAssetCounters()
    postErr,          \* what PersistentPostRunE returned
    postLogged,       \* messages PersistentPostRunE gave to a.Log().Error
    \* ---- jsonoutput (WriteProgress, WriteSummary, writeJSON) ----
    stdout,           \* what os.Stdout has received, one element per token
    jcall,            \* per calling goroutine: the call in progress
    jdone,            \* per calling goroutine: arguments of the calls that returned nil
    jret,             \* per calling goroutine: what its last call returned
    nCalls,           \* WriteProgress / WriteSummary calls made so far
    nWrites,          \* os.Stdout.Write calls made so far
    \* ---- FilteredHandler (log.go) ----
    fhFiltering,      \* the handler the logger holds is a *FilteredHandler
    fhInner,          \* what WithAttrs / WithGroup gave the wrapped handler, in order
    lgPC,             \* "idle", or "return" while a Handle call is about to return
    lgCount,          \* Handle calls made so far
    lgRec,            \* the record of the Handle call in progress
    lgFwd,            \* the records that call passed to the wrapped handler
    lgInnerRet,       \* what the wrapped handler returned to that call
    lgRet             \* what that Handle call returned

runVars == <<variant, appOutput, appNonInteractive, isJSONMode, isNonInteractive,
             cause, parentCancelled, stopProgress, closeCount, rpPC, rpRet, rpSaw,
             ticks, finalRenders, tickRenders, kinds, spinIdx, lastRender,
             assetsPC, albumsPC, browsePC, assetsErr, albumsErr, groupChanSet,
             grpErr, failSeq, plPC, plErr, plRet, counts, groupsDone, uploadCalls,
             finishingCalls, loopErr, finErr, advisorySet, uiErr, mainPC, result,
             causeAtReturn>>

lockVars == <<lock, updPC, updArgs, rdPC, rdTest, rdCurr, readSeq>>

pctVars == <<currImmich, maxImmich, lastUpdate, pctSeq, updSeq, lockVars>>

postVars == <<cmdName, hasFileProcessor, fpCounters, postErr, postLogged>>

rootVars == <<rootPC, aOutput, aNonInteractive, niAtStart, flagChanged,
              stdoutKind, steps, preErr, postVars>>

jsonVars == <<stdout, jcall, jdone, jret, nCalls, nWrites>>

logVars == <<fhFiltering, fhInner, lgPC, lgCount, lgRec, lgFwd, lgInnerRet, lgRet>>

vars == <<runVars, pctVars, rootVars, jsonVars, logVars>>

\* ---------------------------------------------------------------- bounds
MaxTicks == 2
MaxSpinTicks == 5
MaxGroups == 2

\* ---------------------------------------------------------------- errors
Nil == {}
ErrAssets == {"getImmichAssets failed"}
ErrAlbums == {"getImmichAlbums failed"}
ErrUpload == {"uploadLoop failed"}
ErrFinishing == {"finishing failed"}
Canceled == {"context canceled"}

AdvisoryMsg(v) ==
    IF v = 1 THEN {"Some errors have occurred. Check stderr for details"}
             ELSE {"Some errors have occurred. Look at the log file for details"}

\* errors.Join(a, b): nil when both are nil, else an error wrapping the non-nil ones
Join(a, b) == a \cup b

\* CancelWith storing the error of every call, the last one winning
CancelWithLastWins(c, err) ==
    IF err # Nil THEN err ELSE IF c # Nil THEN c ELSE Canceled

\* context.WithCancelCause's cancel(err): the first call sets the cause, later
\* calls do nothing; cancel(nil) sets context.Canceled
CancelWith(c, err) ==
    IF c # Nil THEN c ELSE IF err = Nil THEN Canceled ELSE err

\* errgroup.Group: Wait returns the first non-nil error its functions returned
FirstErr(g, err) == IF g # Nil THEN g ELSE err

ErrorCodes == {"ErrorUploadFailed", "ErrorServerError", "ErrorFileAccess", "ErrorIncomplete"}
Codes == ErrorCodes \cup {"ProcessedUploadSuccess"}

\* the sum the pipeline goroutine tests after uploadLoop
ErrorClassSum(c) ==
    c["ErrorUploadFailed"] + c["ErrorServerError"] + c["ErrorFileAccess"] + c["ErrorIncomplete"]

\* ---------------------------------------------------------------- rendering
\* What one render call writes: the branch taken in the if / else-if chain.
\*   "json"   jsonoutput.WriteProgress record on stdout
\*   "log"    app.Log().Info("progress", ...) line (first version, stderr)
\*   "stderr" fmt.Fprintln(os.Stderr, progressStringNonInteractive())
\*   "cr"     fmt.Print / fmt.Println(progressString()), "\r"-prefixed
\*   "none"   no branch taken (first version, interactive)
\* RenderKind with the NonInteractive test placed before the json test
RenderKindNonInteractiveFirst(v, json, nonInter) ==
    IF nonInter THEN (IF v = 1 THEN "log" ELSE "stderr")
    ELSE IF json THEN "json"
    ELSE IF v = 1 THEN "none" ELSE "cr"

RenderKind(v, json, nonInter) ==
    IF json THEN "json"
    ELSE IF nonInter THEN (IF v = 1 THEN "log" ELSE "stderr")
    ELSE IF v = 1 THEN "none" ELSE "cr"

\* kinds after one render; writeFails: os.Stdout.Write returned an error, which
\* the first version reports with app.Log().Error
Rendered(k, v, json, nonInter, writeFails) ==
    LET r == RenderKind(v, json, nonInter) IN
    (IF r = "none" THEN k ELSE k \cup {r})
        \cup (IF r = "json" /\ writeFails /\ v = 1 THEN {"errlog"} ELSE {})

RenderCount(v, json, nonInter) == IF RenderKind(v, json, nonInter) = "none" THEN 0 ELSE 1

\* spinner := []rune{' ', ' ', '.', ' ', ' '}
SpinnerLen == 5
Spinner == <<" ", " ", ".", " ", " ">>

\* SpinAfter without the return to 0 at len(spinner)
SpinAfterNoWrap(v, json, nonInter, idx) ==
    IF RenderKind(v, json, nonInter) = "cr" THEN idx + 1 ELSE idx

\* progressString's deferred spinner advance
SpinAfter(v, json, nonInter, idx) ==
    IF RenderKind(v, json, nonInter) = "cr"
    THEN (IF idx + 1 = SpinnerLen THEN 0 ELSE idx + 1)
    ELSE idx

\* The counters one render reads and prints: upload errors are
\* counts[ErrorServerError], uploaded is counts[ProcessedUploadSuccess];
\* finished records whether uc.finishing had returned when they were read;
\* frameIdx and frame are the index string(spinner[spinIdx]) was evaluated
\* with, before the deferred advance, and the glyph it gave (-1 and "" for a
\* line without spinner)
Shown(last, v, json, nonInter, c, pc, idx) ==
    IF RenderKind(v, json, nonInter) = "none"
    THEN last
    ELSE [upload_errors |-> c["ErrorServerError"],
          uploaded |-> c["ProcessedUploadSuccess"],
          finished |-> pc \in {"close", "done"},
          frameIdx |-> IF RenderKind(v, json, nonInter) = "cr" THEN idx ELSE -1,
          frame |-> IF RenderKind(v, json, nonInter) = "cr" /\ idx + 1 \in DOMAIN Spinner
                    THEN Spinner[idx + 1] ELSE ""]

\* ---------------------------------------------------------------- runNoUI
\* The reporter's select: a goroutine blocked in select is woken by the first
\* channel that becomes ready and takes that case; a goroutine that reaches the
\* select with several cases ready takes any one of them.
WakeOnCtx(pc, oldCause, newCause) ==
    IF pc = "parked" /\ oldCause = Nil /\ newCause # Nil THEN "woke_ctx" ELSE pc

WakeOnStop(pc) == IF pc = "parked" THEN "woke_stop" ELSE pc

InitRun ==
    /\ variant \in {1, 2}
    /\ appOutput \in {"text", "json"}
    /\ appNonInteractive \in BOOLEAN
    /\ isJSONMode = (appOutput = "json")
    /\ isNonInteractive = appNonInteractive
    /\ cause = Nil
    /\ parentCancelled = FALSE
    /\ stopProgress = FALSE
    /\ closeCount = 0
    /\ rpPC = "select"
    /\ rpRet = Nil
    /\ rpSaw = "none"
    /\ ticks = 0
    /\ finalRenders = 0
    /\ tickRenders = 0
    /\ kinds = {}
    /\ spinIdx = 0
    /\ lastRender = <<>>
    /\ assetsPC = "running"
    /\ albumsPC = "running"
    /\ browsePC = "running"
    /\ assetsErr = Nil
    /\ albumsErr = Nil
    /\ groupChanSet = FALSE
    /\ grpErr = Nil
    /\ failSeq = <<>>
    /\ plPC = "wait"
    /\ plErr = Nil
    /\ plRet = Nil
    /\ counts = [c \in Codes |-> 0]
    /\ groupsDone = 0
    /\ uploadCalls = 0
    /\ finishingCalls = 0
    /\ loopErr = Nil
    /\ finErr = Nil
    /\ advisorySet = FALSE
    /\ uiErr = Nil
    /\ mainPC = "waiting"
    /\ result = Nil
    /\ causeAtReturn = Nil

modeVars == <<variant, appOutput, appNonInteractive, isJSONMode, isNonInteractive>>
renderVars == <<finalRenders, tickRenders, kinds, spinIdx, lastRender>>
phaseVars == <<assetsPC, albumsPC, browsePC, assetsErr, albumsErr, groupChanSet, grpErr, failSeq>>
loopVars == <<counts, groupsDone, uploadCalls, finishingCalls, loopErr, finErr, advisorySet>>
mainVars == <<mainPC, result, causeAtReturn>>

\* ---- reporting goroutine (noui.go:73-107, 251-303)

\* select reached with nothing ready: the goroutine blocks
RpPark ==
    /\ rpPC = "select"
    /\ ~stopProgress
    /\ cause = Nil
    /\ rpPC' = "parked"
    /\ UNCHANGED <<modeVars, renderVars, phaseVars, loopVars, mainVars, cause,
                   parentCancelled, stopProgress, closeCount, rpRet, rpSaw, ticks,
                   plPC, plErr, plRet, uiErr, pctVars, rootVars, jsonVars, logVars>>

\* case <-ticker.C taken
RpTakeTick ==
    /\ rpPC \in {"select", "parked"}
    /\ ticks < MaxTicks
    /\ rpPC' = "tick"
    /\ ticks' = ticks + 1
    /\ UNCHANGED <<modeVars, renderVars, phaseVars, loopVars, mainVars, cause,
                   parentCancelled, stopProgress, closeCount, rpRet, rpSaw,
                   plPC, plErr, plRet, uiErr, pctVars, rootVars, jsonVars, logVars>>

\* case <-ticker.C taken, for a run whose ticker fires more often
RpTakeTickLate ==
    /\ rpPC \in {"select", "parked"}
    /\ ticks >= MaxTicks
    /\ ticks < MaxSpinTicks
    /\ rpPC' = "tick"
    /\ ticks' = ticks + 1
    /\ UNCHANGED <<modeVars, renderVars, phaseVars, loopVars, mainVars, cause,
                   parentCancelled, stopProgress, closeCount, rpRet, rpSaw,
                   plPC, plErr, plRet, uiErr, pctVars, rootVars, jsonVars, logVars>>

\* body of case <-ticker.C: the periodic render
RpTickRender ==
    /\ rpPC = "tick"
    /\ \E writeFails \in BOOLEAN :
          kinds' = Rendered(kinds, variant, isJSONMode, isNonInteractive, writeFails)
    /\ tickRenders' = tickRenders + RenderCount(variant, isJSONMode, isNonInteractive)
    /\ spinIdx' = SpinAfter(variant, isJSONMode, isNonInteractive, spinIdx)
    /\ lastRender' = Shown(lastRender, variant, isJSONMode, isNonInteractive, counts, plPC, spinIdx)
    /\ rpPC' = "select"
    /\ UNCHANGED <<modeVars, finalRenders, phaseVars, loopVars, mainVars, cause,
                   parentCancelled, stopProgress, closeCount, rpRet, rpSaw, ticks,
                   plPC, plErr, plRet, uiErr, pctVars, rootVars, jsonVars, logVars>>

\* case <-stopProgress / case <-ctx.Done(): the first version returns at once,
\* the second renders first (noui.go:272-291); ret is the value returned
RpTake(saw, ret) ==
    /\ rpSaw' = saw
    /\ rpRet' = ret
    /\ rpPC' = "defer"
    /\ IF variant = 2
       THEN /\ \E writeFails \in BOOLEAN :
                  kinds' = Rendered(kinds, variant, isJSONMode, isNonInteractive, writeFails)
            /\ finalRenders' = finalRenders + RenderCount(variant, isJSONMode, isNonInteractive)
            /\ spinIdx' = SpinAfter(variant, isJSONMode, isNonInteractive, spinIdx)
            /\ lastRender' = Shown(lastRender, variant, isJSONMode, isNonInteractive, counts, plPC, spinIdx)
       ELSE UNCHANGED <<kinds, finalRenders, spinIdx, lastRender>>
    /\ UNCHANGED <<modeVars, tickRenders, phaseVars, loopVars, mainVars, cause,
                   parentCancelled, stopProgress, closeCount, ticks,
                   plPC, plErr, plRet, uiErr, pctVars, rootVars, jsonVars, logVars>>

RpTakeStop ==
    /\ \/ rpPC = "select" /\ stopProgress
       \/ rpPC = "woke_stop"
    /\ RpTake("stop", Nil)

\* ctx.Err() of a cancelled context without deadline is context.Canceled
RpTakeCtx ==
    /\ \/ rpPC = "select" /\ cause # Nil
       \/ rpPC = "woke_ctx"
    /\ RpTake("ctx", Canceled)

\* the deferred function: ticker.Stop() and the final status, then the
\* goroutine's return value reaches uiGrp
RpDefer ==
    /\ rpPC = "defer"
    /\ \E writeFails \in BOOLEAN :
          kinds' = Rendered(kinds, variant, isJSONMode, isNonInteractive, writeFails)
    /\ finalRenders' = finalRenders + RenderCount(variant, isJSONMode, isNonInteractive)
    /\ spinIdx' = SpinAfter(variant, isJSONMode, isNonInteractive, spinIdx)
    /\ lastRender' = Shown(lastRender, variant, isJSONMode, isNonInteractive, counts, plPC, spinIdx)
    /\ rpPC' = "done"
    /\ uiErr' = FirstErr(uiErr, rpRet)
    /\ UNCHANGED <<modeVars, tickRenders, phaseVars, loopVars, mainVars, cause,
                   parentCancelled, stopProgress, closeCount, rpRet, rpSaw, ticks,
                   plPC, plErr, plRet, pctVars, rootVars, jsonVars, logVars>>

\* ---- phase tasks (noui.go:114-129, 310-325)

\* getImmichAssets returns err; a non-nil err is handed to cancel
AssetsReturn ==
    /\ assetsPC = "running"
    /\ \E err \in {Nil, ErrAssets} :
          /\ assetsErr' = err
          /\ cause' = IF err # Nil THEN CancelWith(cause, err) ELSE cause
          /\ grpErr' = FirstErr(grpErr, err)
          /\ failSeq' = IF err # Nil THEN Append(failSeq, "assets") ELSE failSeq
    /\ rpPC' = WakeOnCtx(rpPC, cause, cause')
    /\ assetsPC' = "done"
    /\ UNCHANGED <<modeVars, renderVars, loopVars, mainVars, parentCancelled,
                   stopProgress, closeCount, rpRet, rpSaw, ticks, albumsPC, browsePC,
                   albumsErr, groupChanSet, plPC, plErr, plRet, uiErr, pctVars, rootVars, jsonVars, logVars>>

\* getImmichAlbums returns err, which is returned to processGrp as it is
AlbumsReturn ==
    /\ albumsPC = "running"
    /\ \E err \in {Nil, ErrAlbums} :
          /\ albumsErr' = err
          /\ grpErr' = FirstErr(grpErr, err)
          /\ failSeq' = IF err # Nil THEN Append(failSeq, "albums") ELSE failSeq
    /\ albumsPC' = "done"
    /\ UNCHANGED <<modeVars, renderVars, loopVars, mainVars, cause, parentCancelled,
                   stopProgress, closeCount, rpPC, rpRet, rpSaw, ticks, assetsPC,
                   browsePC, assetsErr, groupChanSet, plPC, plErr, plRet, uiErr,
                   pctVars, rootVars, jsonVars, logVars>>

\* groupChan = uc.adapter.Browse(ctx); return err  -- err is the pipeline
\* goroutine's variable, which nothing has assigned yet
BrowseReturn ==
    /\ browsePC = "running"
    /\ groupChanSet' = TRUE
    /\ grpErr' = FirstErr(grpErr, plErr)
    /\ failSeq' = IF plErr # Nil THEN Append(failSeq, "browse") ELSE failSeq
    /\ browsePC' = "done"
    /\ UNCHANGED <<modeVars, renderVars, loopVars, mainVars, cause, parentCancelled,
                   stopProgress, closeCount, rpPC, rpRet, rpSaw, ticks, assetsPC,
                   albumsPC, assetsErr, albumsErr, plPC, plErr, plRet, uiErr,
                   pctVars, rootVars, jsonVars, logVars>>

\* ---- pipeline goroutine (noui.go:130-154, 326-351)

\* PhaseJoin returning the group's error without consulting or setting the cause
PhaseJoinReturnsErr ==
    /\ plPC = "wait"
    /\ assetsPC = "done" /\ albumsPC = "done" /\ browsePC = "done"
    /\ plErr' = grpErr
    /\ IF grpErr # Nil
       THEN /\ plRet' = grpErr
            /\ plPC' = "done"
            /\ uiErr' = FirstErr(uiErr, grpErr)
            /\ UNCHANGED uploadCalls
       ELSE /\ plPC' = "upload"
            /\ uploadCalls' = uploadCalls + 1
            /\ UNCHANGED <<plRet, uiErr>>
    /\ UNCHANGED <<modeVars, renderVars, phaseVars, mainVars, cause, parentCancelled,
                   stopProgress, closeCount, rpPC, rpRet, rpSaw, ticks, counts,
                   groupsDone, finishingCalls, loopErr, finErr, advisorySet,
                   pctVars, rootVars, jsonVars, logVars>>

\* PhaseJoin not waiting for the Browse task
PhaseJoinWithoutBrowse ==
    /\ plPC = "wait"
    /\ assetsPC = "done" /\ albumsPC = "done"
    /\ plErr' = grpErr
    /\ IF grpErr # Nil /\ cause # Nil
       THEN /\ plRet' = cause
            /\ plPC' = "done"
            /\ uiErr' = FirstErr(uiErr, cause)
            /\ UNCHANGED uploadCalls
       ELSE /\ plPC' = "upload"
            /\ uploadCalls' = uploadCalls + 1
            /\ UNCHANGED <<plRet, uiErr>>
    /\ UNCHANGED <<modeVars, renderVars, phaseVars, mainVars, cause, parentCancelled,
                   stopProgress, closeCount, rpPC, rpRet, rpSaw, ticks, counts,
                   groupsDone, finishingCalls, loopErr, finErr, advisorySet,
                   pctVars, rootVars, jsonVars, logVars>>

\* err = processGrp.Wait(); with an error and a non-nil cause the goroutine
\* returns the cause, otherwise it calls uploadLoop
PhaseJoin ==
    /\ plPC = "wait"
    /\ assetsPC = "done" /\ albumsPC = "done" /\ browsePC = "done"
    /\ plErr' = grpErr
    /\ IF grpErr # Nil /\ cause # Nil
       THEN /\ plRet' = cause
            /\ plPC' = "done"
            /\ uiErr' = FirstErr(uiErr, cause)
            /\ UNCHANGED uploadCalls
       ELSE /\ plPC' = "upload"
            /\ uploadCalls' = uploadCalls + 1
            /\ UNCHANGED <<plRet, uiErr>>
    /\ UNCHANGED <<modeVars, renderVars, phaseVars, mainVars, cause, parentCancelled,
                   stopProgress, closeCount, rpPC, rpRet, rpSaw, ticks, counts,
                   groupsDone, finishingCalls, loopErr, finErr, advisorySet,
                   pctVars, rootVars, jsonVars, logVars>>

\* uploadLoop consumes one asset group; the file processor records its outcome
UploadGroup ==
    /\ plPC = "upload"
    /\ groupsDone < MaxGroups
    /\ \E code \in Codes : counts' = [counts EXCEPT ![code] = @ + 1]
    /\ groupsDone' = groupsDone + 1
    /\ UNCHANGED <<modeVars, renderVars, phaseVars, mainVars, cause, parentCancelled,
                   stopProgress, closeCount, rpPC, rpRet, rpSaw, ticks, plPC, plErr,
                   plRet, uploadCalls, finishingCalls, loopErr, finErr, advisorySet,
                   uiErr, pctVars, rootVars, jsonVars, logVars>>

\* UploadLoopReturn leaving the goroutine at once when uploadLoop failed
UploadLoopReturnEarly ==
    /\ plPC = "upload"
    /\ \E err \in {Nil, ErrUpload} :
          /\ plErr' = err
          /\ loopErr' = err
          /\ cause' = IF err # Nil THEN CancelWith(cause, err) ELSE cause
          /\ plPC' = IF err # Nil THEN "done" ELSE "inspect"
          /\ plRet' = IF err # Nil THEN err ELSE plRet
          /\ uiErr' = FirstErr(uiErr, err)
    /\ rpPC' = WakeOnCtx(rpPC, cause, cause')
    /\ UNCHANGED <<modeVars, renderVars, phaseVars, mainVars, parentCancelled,
                   stopProgress, closeCount, rpRet, rpSaw, ticks, counts,
                   groupsDone, uploadCalls, finishingCalls, finErr, advisorySet,
                   pctVars, rootVars, jsonVars, logVars>>

\* err = uc.uploadLoop(ctx, groupChan); if err != nil { cancel(err) }
UploadLoopReturn ==
    /\ plPC = "upload"
    /\ \E err \in {Nil, ErrUpload} :
          /\ plErr' = err
          /\ loopErr' = err
          /\ cause' = IF err # Nil THEN CancelWith(cause, err) ELSE cause
    /\ rpPC' = WakeOnCtx(rpPC, cause, cause')
    /\ plPC' = "inspect"
    /\ UNCHANGED <<modeVars, renderVars, phaseVars, mainVars, parentCancelled,
                   stopProgress, closeCount, rpRet, rpSaw, ticks, plRet, counts,
                   groupsDone, uploadCalls, finishingCalls, finErr, advisorySet,
                   uiErr, pctVars, rootVars, jsonVars, logVars>>

\* InspectCounts testing the error-class sum with >= instead of >
InspectCountsAlways ==
    /\ plPC = "inspect"
    /\ IF ErrorClassSum(counts) >= 0
       THEN /\ cause' = CancelWith(cause, AdvisoryMsg(variant))
            /\ advisorySet' = TRUE
       ELSE UNCHANGED <<cause, advisorySet>>
    /\ rpPC' = WakeOnCtx(rpPC, cause, cause')
    /\ finishingCalls' = finishingCalls + 1
    /\ plPC' = "finishing"
    /\ UNCHANGED <<modeVars, renderVars, phaseVars, mainVars, parentCancelled,
                   stopProgress, closeCount, rpRet, rpSaw, ticks, plErr, plRet, counts,
                   groupsDone, uploadCalls, loopErr, finErr, uiErr, pctVars, rootVars, jsonVars, logVars>>

\* InspectCounts closing stopProgress before uc.finishing is called
InspectCountsThenClose ==
    /\ plPC = "inspect"
    /\ IF ErrorClassSum(counts) > 0
       THEN /\ cause' = CancelWith(cause, AdvisoryMsg(variant))
            /\ advisorySet' = TRUE
       ELSE UNCHANGED <<cause, advisorySet>>
    /\ stopProgress' = TRUE
    /\ closeCount' = closeCount + 1
    /\ rpPC' = WakeOnStop(WakeOnCtx(rpPC, cause, cause'))
    /\ finishingCalls' = finishingCalls + 1
    /\ plPC' = "finishing"
    /\ UNCHANGED <<modeVars, renderVars, phaseVars, mainVars, parentCancelled,
                   rpRet, rpSaw, ticks, plErr, plRet, counts,
                   groupsDone, uploadCalls, loopErr, finErr, uiErr, pctVars, rootVars, jsonVars, logVars>>

\* counts := GetCounts(); with a non-zero error-class sum the advisory message
\* is handed to cancel; then uc.finishing(ctx) is called
InspectCounts ==
    /\ plPC = "inspect"
    /\ IF ErrorClassSum(counts) > 0
       THEN /\ cause' = CancelWith(cause, AdvisoryMsg(variant))
            /\ advisorySet' = TRUE
       ELSE UNCHANGED <<cause, advisorySet>>
    /\ rpPC' = WakeOnCtx(rpPC, cause, cause')
    /\ finishingCalls' = finishingCalls + 1
    /\ plPC' = "finishing"
    /\ UNCHANGED <<modeVars, renderVars, phaseVars, mainVars, parentCancelled,
                   stopProgress, closeCount, rpRet, rpSaw, ticks, plErr, plRet, counts,
                   groupsDone, uploadCalls, loopErr, finErr, uiErr, pctVars, rootVars, jsonVars, logVars>>

\* err = errors.Join(err, uc.finishing(ctx))
FinishingReturn ==
    /\ plPC = "finishing"
    /\ \E err \in {Nil, ErrFinishing} :
          /\ finErr' = err
          /\ plErr' = Join(plErr, err)
    /\ plPC' = "close"
    /\ UNCHANGED <<modeVars, renderVars, phaseVars, mainVars, cause, parentCancelled,
                   stopProgress, closeCount, rpPC, rpRet, rpSaw, ticks, plRet, counts,
                   groupsDone, uploadCalls, finishingCalls, loopErr, advisorySet,
                   uiErr, pctVars, rootVars, jsonVars, logVars>>

\* close(stopProgress); return err
CloseStop ==
    /\ plPC = "close"
    /\ stopProgress' = TRUE
    /\ closeCount' = closeCount + 1
    /\ rpPC' = WakeOnStop(rpPC)
    /\ plRet' = plErr
    /\ uiErr' = FirstErr(uiErr, plErr)
    /\ plPC' = "done"
    /\ UNCHANGED <<modeVars, renderVars, phaseVars, loopVars, mainVars, cause,
                   parentCancelled, rpRet, rpSaw, ticks, plErr, pctVars, rootVars, jsonVars, logVars>>

\* ---- runNoUI itself (noui.go:157-161, 354-358, and the deferred cancel(nil))

\* err := uiGrp.Wait(); if err != nil { err = context.Cause(ctx) }; return err
RunReturn ==
    /\ mainPC = "waiting"
    /\ rpPC = "done" /\ plPC = "done"
    /\ result' = IF uiErr # Nil THEN cause ELSE Nil
    /\ causeAtReturn' = cause
    /\ mainPC' = "returned"
    /\ UNCHANGED <<modeVars, renderVars, phaseVars, loopVars, cause, parentCancelled,
                   stopProgress, closeCount, rpPC, rpRet, rpSaw, ticks, plPC, plErr,
                   plRet, uiErr, pctVars, rootVars, jsonVars, logVars>>

\* defer cancel(nil)
DeferCancel ==
    /\ mainPC = "returned"
    /\ cause' = CancelWith(cause, Nil)
    /\ mainPC' = "exited"
    /\ UNCHANGED <<modeVars, renderVars, phaseVars, loopVars, parentCancelled,
                   stopProgress, closeCount, rpPC, rpRet, rpSaw, ticks, plPC, plErr,
                   plRet, uiErr, result, causeAtReturn, pctVars, rootVars, jsonVars, logVars>>

\* the caller cancels the context runNoUI was given: the derived context is
\* cancelled with the parent's cause unless it already has one
ParentCancel ==
    /\ mainPC = "waiting"
    /\ ~parentCancelled
    /\ parentCancelled' = TRUE
    /\ cause' = CancelWith(cause, Canceled)
    /\ rpPC' = WakeOnCtx(rpPC, cause, cause')
    /\ UNCHANGED <<modeVars, renderVars, phaseVars, loopVars, mainVars, stopProgress,
                   closeCount, rpRet, rpSaw, ticks, plPC, plErr, plRet, uiErr,
                   pctVars, rootVars, jsonVars, logVars>>

NextRun ==
    \/ RpPark \/ RpTakeTick \/ RpTickRender \/ RpTakeStop \/ RpTakeCtx \/ RpDefer
    \/ AssetsReturn \/ AlbumsReturn \/ BrowseReturn
    \/ PhaseJoin \/ UploadGroup \/ UploadLoopReturn \/ InspectCounts
    \/ FinishingReturn \/ CloseStop
    \/ RunReturn \/ DeferCancel \/ ParentCancel

\* ---------------------------------------------------------------- scan progress
\* (noui.go:23-39, 191-209)  Both closures hold lock for their whole body, so
\* each is one step.  Values stay far below the width of Go's int.
MaxReads == 2
Values == {-50, 0, 50, 150, 200, 300}
Totals == {0, 150, 200}

\* Go's integer division truncates toward zero
GoDiv(a, b) ==
    IF (a >= 0) = (b > 0) \/ a = 0
    THEN (IF a >= 0 THEN a ELSE -a) \div (IF b > 0 THEN b ELSE -b)
    ELSE -((IF a >= 0 THEN a ELSE -a) \div (IF b > 0 THEN b ELSE -b))

\* GetImmichPct with 0 instead of 100 for an unknown total
GetImmichPctZeroWhenUnknown(curr, max) == IF max > 0 THEN GoDiv(100 * curr, max) ELSE 0

\* getImmichPct's result for the pair it reads
GetImmichPct(curr, max) == IF max > 0 THEN GoDiv(100 * curr, max) ELSE 100

\* UpdatePair with the two values assigned the wrong way round
UpdatePairSwapped(value, total) == <<total, value>>

\* currImmich, maxImmich = value, total
UpdatePair(value, total) == <<value, total>>

InitPct ==
    /\ currImmich = 0
    /\ maxImmich = 0
    /\ lastUpdate = <<0, 0>>
    /\ pctSeq = <<>>
    /\ updSeq = <<>>
    /\ lock = FALSE
    /\ updPC = "idle"
    /\ updArgs = <<0, 0>>
    /\ rdPC = "idle"
    /\ rdTest = 0
    /\ rdCurr = 0
    /\ readSeq = <<>>

immichUpdate ==
    /\ \E value \in Values, total \in Totals :
          /\ currImmich' = UpdatePair(value, total)[1]
          /\ maxImmich' = UpdatePair(value, total)[2]
          /\ lastUpdate' = <<value, total>>
    /\ UNCHANGED <<pctSeq, updSeq, lockVars, runVars, rootVars, jsonVars, logVars>>

getImmichPct ==
    /\ Len(pctSeq) < MaxReads
    /\ pctSeq' = Append(pctSeq, GetImmichPct(currImmich, maxImmich))
    /\ updSeq' = Append(updSeq, lastUpdate)
    /\ UNCHANGED <<currImmich, maxImmich, lastUpdate, lockVars, runVars, rootVars, jsonVars, logVars>>

NextPct == immichUpdate \/ getImmichPct

\* ---- the same two functions, one step per lock operation and memory access
\* (noui.go:25-39, 192-208)

\* CanLock for a mutex that never blocks
CanLockAlways(locked) == TRUE

\* lock.Lock() returns only when the mutex is free
CanLock(locked) == ~locked

others == <<runVars, rootVars, jsonVars, logVars>>

\* immichUpdate(value, total): lock.Lock()
UpdLock ==
    /\ updPC = "idle"
    /\ CanLock(lock)
    /\ lock' = TRUE
    /\ \E value \in Values, total \in Totals : updArgs' = <<value, total>>
    /\ updPC' = "curr"
    /\ UNCHANGED <<currImmich, maxImmich, lastUpdate, pctSeq, updSeq, rdPC, rdTest,
                   rdCurr, readSeq, others>>

\* currImmich, maxImmich = value, total: the store to currImmich
UpdWriteCurr ==
    /\ updPC = "curr"
    /\ currImmich' = UpdatePair(updArgs[1], updArgs[2])[1]
    /\ updPC' = "max"
    /\ UNCHANGED <<maxImmich, lastUpdate, pctSeq, updSeq, lock, updArgs, rdPC, rdTest,
                   rdCurr, readSeq, others>>

\* currImmich, maxImmich = value, total: the store to maxImmich, which
\* completes the pair of this call
UpdWriteMax ==
    /\ updPC = "max"
    /\ maxImmich' = UpdatePair(updArgs[1], updArgs[2])[2]
    /\ lastUpdate' = updArgs
    /\ updPC' = "unlock"
    /\ UNCHANGED <<currImmich, pctSeq, updSeq, lock, updArgs, rdPC, rdTest, rdCurr,
                   readSeq, others>>

\* lock.Unlock()
UpdUnlock ==
    /\ updPC = "unlock"
    /\ lock' = FALSE
    /\ updPC' = "idle"
    /\ UNCHANGED <<currImmich, maxImmich, lastUpdate, pctSeq, updSeq, updArgs, rdPC,
                   rdTest, rdCurr, readSeq, others>>

\* getImmichPct(): lock.Lock()
RdLock ==
    /\ rdPC = "idle"
    /\ Len(pctSeq) < MaxReads
    /\ CanLock(lock)
    /\ lock' = TRUE
    /\ rdPC' = "test"
    /\ UNCHANGED <<currImmich, maxImmich, lastUpdate, pctSeq, updSeq, updPC, updArgs,
                   rdTest, rdCurr, readSeq, others>>

\* if maxImmich > 0 {...}; return 100  -- with an unknown total the result is
\* 100 at once
RdTest ==
    /\ rdPC = "test"
    /\ rdTest' = maxImmich
    /\ IF maxImmich > 0
       THEN /\ rdPC' = "curr"
            /\ UNCHANGED <<pctSeq, updSeq, readSeq>>
       ELSE /\ rdPC' = "unlock"
            /\ pctSeq' = Append(pctSeq, GetImmichPct(currImmich, maxImmich))
            /\ updSeq' = Append(updSeq, lastUpdate)
            /\ readSeq' = Append(readSeq, [test |-> maxImmich, curr |-> currImmich,
                                          max |-> maxImmich])
    /\ UNCHANGED <<currImmich, maxImmich, lastUpdate, lock, updPC, updArgs, rdCurr,
                   others>>

\* 100 * currImmich / maxImmich: the load of currImmich
RdCurr ==
    /\ rdPC = "curr"
    /\ rdCurr' = currImmich
    /\ rdPC' = "max"
    /\ UNCHANGED <<currImmich, maxImmich, lastUpdate, pctSeq, updSeq, lock, updPC,
                   updArgs, rdTest, readSeq, others>>

\* 100 * currImmich / maxImmich: the load of maxImmich and the division, which
\* panics on a zero divisor
RdMax ==
    /\ rdPC = "max"
    /\ IF maxImmich = 0
       THEN /\ rdPC' = "panic"
            /\ UNCHANGED <<pctSeq, updSeq, readSeq>>
       ELSE /\ rdPC' = "unlock"
            /\ pctSeq' = Append(pctSeq, GoDiv(100 * rdCurr, maxImmich))
            /\ updSeq' = Append(updSeq, lastUpdate)
            /\ readSeq' = Append(readSeq, [test |-> rdTest, curr |-> rdCurr,
                                          max |-> maxImmich])
    /\ UNCHANGED <<currImmich, maxImmich, lastUpdate, lock, updPC, updArgs, rdTest,
                   rdCurr, others>>

\* defer lock.Unlock()
RdUnlock ==
    /\ rdPC = "unlock"
    /\ lock' = FALSE
    /\ rdPC' = "idle"
    /\ UNCHANGED <<currImmich, maxImmich, lastUpdate, pctSeq, updSeq, updPC, updArgs,
                   rdTest, rdCurr, readSeq, others>>

NextLock ==
    \/ UpdLock \/ UpdWriteCurr \/ UpdWriteMax \/ UpdUnlock
    \/ RdLock \/ RdTest \/ RdCurr \/ RdMax \/ RdUnlock

\* ---------------------------------------------------------------- root command
\* PersistentPreRunE (rootCmd.go:53-100)
Outputs == {"text", "json", "JSON", "bad", ""}

\* ValidOutput comparing without regard to case
ValidOutputAnyCase(o) == o = "text" \/ o = "json" \/ o = "JSON"

\* a.Output != "text" && a.Output != "json" is the rejection test
ValidOutput(o) == o = "text" \/ o = "json"

\* fmt.Errorf("invalid output format: %q (must be 'text' or 'json')", a.Output)
ErrInvalidOutput(o) == <<"invalid output format", o>>
ErrConfigInit == <<"Config.Init failed", "">>
ErrProcessCommand == <<"Config.ProcessCommand failed", "">>
ErrConfigSave == <<"Config.Save failed", "">>
ErrLogOpen == <<"Log.Open failed", "">>
NoErr == <<"", "">>

\* os.Stdout.Stat() succeeds unless stdout is closed; the mode has
\* os.ModeCharDevice exactly for a terminal
StatOK(kind) == kind # "closed"
IsCharDevice(kind) == kind = "tty"

\* AutoDetect without the test that the flag was given explicitly
AutoDetectIgnoringFlag(ni, changed, kind) ==
    IF ~ni /\ StatOK(kind) /\ ~IsCharDevice(kind) THEN TRUE ELSE ni

\* a.NonInteractive after the auto-detection block (rootCmd.go:62-71)
AutoDetect(ni, changed, kind) ==
    IF ~ni /\ ~changed /\ StatOK(kind) /\ ~IsCharDevice(kind) THEN TRUE ELSE ni

\* assettracker.AssetCounters values a run can end with
CountersSet ==
    { [Pending |-> 0, Processed |-> 0, Discarded |-> 0, Errors |-> 0,
       AssetSize |-> 0, ProcessedSize |-> 0],
      [Pending |-> 1, Processed |-> 2, Discarded |-> 3, Errors |-> 4,
       AssetSize |-> 100, ProcessedSize |-> 50] }

\* commands of the root command; version has no log
CmdNames == {"upload", "archive", "stack", "version"}

InitRoot ==
    /\ rootPC = "start"
    /\ aOutput \in Outputs
    /\ aNonInteractive \in BOOLEAN
    /\ niAtStart = aNonInteractive
    /\ flagChanged \in BOOLEAN
    /\ stdoutKind \in {"tty", "pipe", "closed"}
    /\ steps = <<>>
    /\ preErr = NoErr
    /\ cmdName \in CmdNames
    /\ hasFileProcessor \in BOOLEAN
    /\ fpCounters \in CountersSet
    /\ postErr = NoErr
    /\ postLogged = {}

\* the steps after the auto-detection, each of which may fail and end the hook
PreRunSteps(initFails, processFails, save, saveFails, openFails) ==
    IF initFails THEN <<<<"Config.Init">>, ErrConfigInit>>
    ELSE IF processFails THEN <<<<"Config.Init", "Config.ProcessCommand">>, ErrProcessCommand>>
    ELSE IF save /\ saveFails
         THEN <<<<"Config.Init", "Config.ProcessCommand", "Config.Save">>, ErrConfigSave>>
    ELSE <<(IF save THEN <<"Config.Init", "Config.ProcessCommand", "Config.Save", "Log.Open">>
                    ELSE <<"Config.Init", "Config.ProcessCommand", "Log.Open">>),
           IF openFails THEN ErrLogOpen ELSE NoErr>>

PersistentPreRunE ==
    /\ rootPC = "start"
    /\ rootPC' = "pre_done"
    /\ IF ~ValidOutput(aOutput)
       THEN /\ preErr' = ErrInvalidOutput(aOutput)
            /\ UNCHANGED <<aNonInteractive, steps>>
       ELSE /\ aNonInteractive' = AutoDetect(aNonInteractive, flagChanged, stdoutKind)
            /\ \E initFails \in BOOLEAN, processFails \in BOOLEAN, save \in BOOLEAN,
                  saveFails \in BOOLEAN, openFails \in BOOLEAN :
                  /\ steps' = PreRunSteps(initFails, processFails, save, saveFails, openFails)[1]
                  /\ preErr' = PreRunSteps(initFails, processFails, save, saveFails, openFails)[2]
    /\ UNCHANGED <<aOutput, niAtStart, flagChanged, stdoutKind, postVars, runVars, pctVars, jsonVars, logVars>>

\* the command itself runs once the hook has returned nil; it reads
\* a.NonInteractive and a.Output and assigns neither
RunCommand ==
    /\ rootPC = "pre_done"
    /\ preErr = NoErr
    /\ rootPC' = "run_done"
    /\ UNCHANGED <<aOutput, aNonInteractive, niAtStart, flagChanged, stdoutKind,
                   steps, preErr, postVars, runVars, pctVars, jsonVars, logVars>>

NextRoot == PersistentPreRunE \/ RunCommand

\* ---------------------------------------------------------------- jsonoutput
\* (unnamed/part_000:13-94)  A JSON value is modelled by its structure: an
\* object is a record whose fields are the struct's json tags, a map is a
\* function from its keys, a line is the object followed by the newline token.
MaxProgress == 2

Callers == {"progress", "summary"}

\* fileevent.Code.String(): the human-readable name of an event code, a
\* different one for each code
CodeName(code) == <<"name of", code>>

\* a Go map is a function from the keys it holds
EmptyMap == <<>>
EventCountsSet ==
    { EmptyMap,
      [c \in {"ProcessedUploadSuccess"} |-> 5],
      [c \in {"ErrorServerError", "ProcessedUploadSuccess"} |->
          IF c = "ErrorServerError" THEN 2 ELSE 5] }
EventSizesSet == { EmptyMap, [c \in {"ErrorServerError"} |-> 2048] }

\* reading a Go map gives the zero value for a key it does not hold
MapGet(m, k) == IF k \in DOMAIN m THEN m[k] ELSE 0

\* float64 durations; json.Marshal refuses NaN
Durations == {"12.5", "NaN"}

ProgressArgs ==
    [immichPct : {42, 100}, totalAssets : {120}, uploadErrors : {0, 3}, uploaded : {10}]

SummaryArgs ==
    [status : {"success", "error"}, exitCode : {0, 1}, counters : CountersSet,
     eventCounts : EventCountsSet, eventSizes : EventSizesSet, duration : Durations]

\* WriteProgress's ProgressUpdate value, as json.Marshal renders it
ProgressRecord(a) ==
    [type |-> "progress", timestamp |-> "now", immich_read_pct |-> a.immichPct,
     assets_found |-> a.totalAssets, upload_errors |-> a.uploadErrors,
     uploaded |-> a.uploaded]

\* SummaryEvents ranging over eventSizes instead of eventCounts
SummaryEventsOverSizes(eventCounts, eventSizes) ==
    [name \in {CodeName(c) : c \in DOMAIN eventSizes} |->
        LET c == CHOOSE x \in DOMAIN eventSizes : CodeName(x) = name
        IN  [count |-> MapGet(eventCounts, c), size |-> eventSizes[c]]]

\* the loop of WriteSummary: events[code.String()] = {count, eventSizes[code]}
\* for every code of eventCounts
SummaryEvents(eventCounts, eventSizes) ==
    [name \in {CodeName(c) : c \in DOMAIN eventCounts} |->
        LET c == CHOOSE x \in DOMAIN eventCounts : CodeName(x) = name
        IN  [count |-> eventCounts[c], size |-> MapGet(eventSizes, c)]]

\* WriteSummary's FinalSummary value, as json.Marshal renders it
SummaryRecord(a) ==
    [type |-> "summary", status |-> a.status, exit_code |-> a.exitCode,
     counters |-> a.counters, events |-> SummaryEvents(a.eventCounts, a.eventSizes),
     duration_seconds |-> a.duration, timestamp |-> "now"]

\* json.Marshal fails on a float that JSON cannot hold
MarshalFails(a) == a.duration = "NaN"

ErrMarshal == {"failed to marshal JSON"}
ErrWrite == {"os.Stdout.Write failed"}

\* the '\n' byte, and what a Write that failed midway leaves of a line
NL == [type |-> "\n"]
Truncated == [type |-> "truncated"]

\* WriteChunks handing the record and the newline to two Write calls
WriteChunksSeparateNewline(obj) == << <<obj>>, <<NL>> >>

\* jsonData = append(jsonData, '\n'); os.Stdout.Write(jsonData): the buffers
\* handed to Write, in order
WriteChunks(obj) == << <<obj, NL>> >>

NoCall == [pc |-> "idle", buf |-> <<>>, args |-> <<>>]

InitJson ==
    /\ stdout = <<>>
    /\ jcall = [c \in Callers |-> NoCall]
    /\ jdone = [c \in Callers |-> <<>>]
    /\ jret = [c \in Callers |-> Nil]
    /\ nCalls = [c \in Callers |-> 0]
    /\ nWrites = 0

IdleJson == InitJson

\* WriteProgress up to the call of writeJSON's Write
WriteProgress ==
    /\ jcall["progress"].pc = "idle"
    /\ nCalls["progress"] < MaxProgress
    /\ \E a \in ProgressArgs :
          jcall' = [jcall EXCEPT !["progress"] =
                       [pc |-> "write", buf |-> WriteChunks(ProgressRecord(a)), args |-> a]]
    /\ nCalls' = [nCalls EXCEPT !["progress"] = @ + 1]
    /\ UNCHANGED <<stdout, jdone, jret, nWrites, runVars, pctVars, rootVars, logVars>>

\* WriteSummary(a...) up to the call of writeJSON's Write, or to the return of
\* the marshalling error
WriteSummaryCall(a) ==
    /\ jcall["summary"].pc = "idle"
    /\ nCalls["summary"] < 1
    /\ IF MarshalFails(a)
       THEN /\ jret' = [jret EXCEPT !["summary"] = ErrMarshal]
            /\ UNCHANGED jcall
       ELSE /\ jcall' = [jcall EXCEPT !["summary"] =
                            [pc |-> "write", buf |-> WriteChunks(SummaryRecord(a)),
                             args |-> a]]
            /\ UNCHANGED jret
    /\ nCalls' = [nCalls EXCEPT !["summary"] = @ + 1]
    /\ UNCHANGED <<stdout, jdone, nWrites>>

\* WriteSummary called with any arguments; the summary is written once per run
WriteSummary ==
    /\ \E a \in SummaryArgs : WriteSummaryCall(a)
    /\ UNCHANGED <<runVars, pctVars, rootVars, logVars>>

\* _, err = os.Stdout.Write(jsonData); return err  -- Write holds the file's
\* write lock, so one call's bytes reach stdout together; a failed Write
\* delivers nothing or a part of the buffer
writeJSON(c) ==
    /\ jcall[c].pc = "write"
    /\ nWrites' = nWrites + 1
    /\ \E outcome \in {"written", "failed", "failed midway"} :
          IF outcome # "written"
          THEN /\ jret' = [jret EXCEPT ![c] = ErrWrite]
               /\ jcall' = [jcall EXCEPT ![c] = NoCall]
               /\ stdout' = IF outcome = "failed" THEN stdout
                                                  ELSE Append(stdout, Truncated)
               /\ UNCHANGED jdone
          ELSE /\ stdout' = stdout \o Head(jcall[c].buf)
               /\ IF Len(jcall[c].buf) = 1
                  THEN /\ jret' = [jret EXCEPT ![c] = Nil]
                       /\ jdone' = [jdone EXCEPT ![c] = Append(@, jcall[c].args)]
                       /\ jcall' = [jcall EXCEPT ![c] = NoCall]
                  ELSE /\ jcall' = [jcall EXCEPT ![c].buf = Tail(@)]
                       /\ UNCHANGED <<jret, jdone>>
    /\ UNCHANGED <<nCalls, runVars, pctVars, rootVars, logVars>>

writeJSONProgress == writeJSON("progress")
writeJSONSummary == writeJSON("summary")

NextJson == WriteProgress \/ WriteSummary \/ writeJSONProgress \/ writeJSONSummary

\* ---------------------------------------------------------------- PersistentPostRunE
\* (rootCmd.go:103-131)

\* Log.Close: nil for the version command, and nil after closing the API trace
\* (log.go:177-192)
LogClose(name) == NoErr

\* a.Output == "json" && a.FileProcessor() != nil && cmd.Name() != "upload"
SummaryDue(output, hasFP, name) == output = "json" /\ hasFP /\ name # "upload"

\* PostStatus reporting an error for a counter of 0 as well
PostStatusAtZero(errors) ==
    IF errors >= 0 THEN [status |-> "error", exitCode |-> 1]
                   ELSE [status |-> "success", exitCode |-> 0]

\* status := "success"; exitCode := 0; if counters.Errors > 0 {"error", 1}
PostStatus(errors) ==
    IF errors > 0 THEN [status |-> "error", exitCode |-> 1]
                  ELSE [status |-> "success", exitCode |-> 0]

\* time.Since(startTime).Seconds() is a finite number
PostDuration == "12.5"

rootFlags == <<aOutput, aNonInteractive, niAtStart, flagChanged, stdoutKind, steps, preErr>>

\* PersistentPostRunE up to its return or to the Write inside WriteSummary;
\* the event maps are what the FileProcessor holds at that moment
PersistentPostRunE ==
    /\ rootPC = "run_done"
    /\ IF LogClose(cmdName) # NoErr
       THEN /\ postErr' = LogClose(cmdName)
            /\ rootPC' = "post_done"
            /\ UNCHANGED jsonVars
       ELSE IF SummaryDue(aOutput, hasFileProcessor, cmdName)
       THEN /\ \E ec \in EventCountsSet, es \in EventSizesSet :
                  WriteSummaryCall([status |-> PostStatus(fpCounters.Errors).status,
                                    exitCode |-> PostStatus(fpCounters.Errors).exitCode,
                                    counters |-> fpCounters, eventCounts |-> ec,
                                    eventSizes |-> es, duration |-> PostDuration])
            /\ rootPC' = "post_write"
            /\ UNCHANGED postErr
       ELSE /\ rootPC' = "post_done"
            /\ postErr' = NoErr
            /\ UNCHANGED jsonVars
    /\ UNCHANGED <<rootFlags, cmdName, hasFileProcessor, fpCounters, postLogged,
                   runVars, pctVars, logVars>>

\* WriteSummary has returned: its error goes to a.Log().Error, and the hook
\* returns nil
PostRunReturn ==
    /\ rootPC = "post_write"
    /\ jcall["summary"].pc = "idle"
    /\ postLogged' = IF jret["summary"] # Nil
                     THEN postLogged \cup {"failed to write JSON summary"}
                     ELSE postLogged
    /\ postErr' = NoErr
    /\ rootPC' = "post_done"
    /\ UNCHANGED <<rootFlags, cmdName, hasFileProcessor, fpCounters, runVars, pctVars,
                   jsonVars, logVars>>

NextPost ==
    \/ PersistentPreRunE \/ RunCommand
    \/ PersistentPostRunE \/ writeJSONSummary \/ PostRunReturn

\* ---------------------------------------------------------------- FilteredHandler
\* (log.go:217-264)  A record is its level and its attributes; an attribute
\* value is a string, an error (the set of errors errors.Is finds in its tree)
\* or a group of attributes.
MaxHandles == 2
MaxAttrs == 2
MaxWith == 2

\* slog levels: Info, Warn, Error, and one above Error
LevelError == 8
Levels == {0, 4, LevelError, 12}

\* attribute values: a string, errors.New("context canceled") (the same text,
\* another error), context.Canceled, fmt.Errorf("read: %w", context.Canceled),
\* and a group holding context.Canceled
AttrValues ==
    { [kind |-> "string", tree |-> {}],
      [kind |-> "error", tree |-> {"context canceled (errors.New)"}],
      [kind |-> "error", tree |-> Canceled],
      [kind |-> "error", tree |-> {"read"} \cup Canceled],
      [kind |-> "group", tree |-> Canceled] }

\* the attributes given to WithAttrs
WithValues == {v \in AttrValues : v.tree \in {{}, Canceled} /\ v.kind # "group"}

AttrLists == UNION {[1..n -> AttrValues] : n \in 0..MaxAttrs}

\* err, ok := a.Value.Any().(error)
IsError(v) == v.kind = "error"

\* errors.Is(err, target) for a sentinel target
ErrorsIs(v, target) == target \subseteq v.tree

\* the r.Attrs loop: keepMe, starting at attribute i; the callback stops the
\* iteration at the first error that is context.Canceled
RECURSIVE KeepMeFrom(_, _)
KeepMeFrom(attrs, i) ==
    IF i > Len(attrs) THEN TRUE
    ELSE IF IsError(attrs[i]) /\ ErrorsIs(attrs[i], Canceled) THEN FALSE
    ELSE KeepMeFrom(attrs, i + 1)

\* Dropped without the test of the level
DroppedAnyLevel(level, attrs) == ~KeepMeFrom(attrs, 1)

\* Handle returns nil before calling the wrapped handler
Dropped(level, attrs) == level >= LevelError /\ ~KeepMeFrom(attrs, 1)

\* WithFiltering returning the wrapped handler's result as it is
WithUnwrapped(filtering) == FALSE

\* &FilteredHandler{handler: h.handler.WithAttrs(attrs)}: the result filters
WithFiltering(filtering) == TRUE

ErrInner == {"wrapped handler failed"}
NoRecord == [level |-> 0, attrs |-> <<>>]

\* slog.New(NewFilteredHandler(handler))
InitLog ==
    /\ fhFiltering = TRUE
    /\ fhInner = <<>>
    /\ lgPC = "idle"
    /\ lgCount = 0
    /\ lgRec = NoRecord
    /\ lgFwd = <<>>
    /\ lgInnerRet = Nil
    /\ lgRet = Nil

IdleLog == InitLog

\* h.WithAttrs(attrs): the attributes go to the wrapped handler
WithAttrs ==
    /\ lgPC = "idle"
    /\ Len(fhInner) < MaxWith
    /\ \E v \in WithValues : fhInner' = Append(fhInner, [op |-> "attrs", attrs |-> <<v>>])
    /\ fhFiltering' = WithFiltering(fhFiltering)
    /\ UNCHANGED <<lgPC, lgCount, lgRec, lgFwd, lgInnerRet, lgRet, runVars, pctVars,
                   rootVars, jsonVars>>

\* h.WithGroup(name)
WithGroup ==
    /\ lgPC = "idle"
    /\ Len(fhInner) < MaxWith
    /\ fhInner' = Append(fhInner, [op |-> "group", attrs |-> <<>>])
    /\ fhFiltering' = WithFiltering(fhFiltering)
    /\ UNCHANGED <<lgPC, lgCount, lgRec, lgFwd, lgInnerRet, lgRet, runVars, pctVars,
                   rootVars, jsonVars>>

\* Handle(ctx, r) on the handler the logger holds, up to its return statement;
\* a handler that is not a FilteredHandler passes every record on
Handle ==
    /\ lgPC = "idle"
    /\ lgCount < MaxHandles
    /\ lgCount' = lgCount + 1
    /\ lgPC' = "return"
    /\ \E level \in Levels, attrs \in AttrLists, innerRet \in {Nil, ErrInner} :
          /\ lgRec' = [level |-> level, attrs |-> attrs]
          /\ IF fhFiltering /\ Dropped(level, attrs)
             THEN /\ lgFwd' = <<>>
                  /\ lgInnerRet' = Nil
                  /\ lgRet' = Nil
             ELSE /\ lgFwd' = <<[level |-> level, attrs |-> attrs]>>
                  /\ lgInnerRet' = innerRet
                  /\ lgRet' = innerRet
    /\ UNCHANGED <<fhFiltering, fhInner, runVars, pctVars, rootVars, jsonVars>>

\* the call returns and its frame is gone
HandleReturn ==
    /\ lgPC = "return"
    /\ lgPC' = "idle"
    /\ lgRec' = NoRecord
    /\ lgFwd' = <<>>
    /\ lgInnerRet' = Nil
    /\ lgRet' = Nil
    /\ UNCHANGED <<fhFiltering, fhInner, lgCount, runVars, pctVars, rootVars, jsonVars>>

NextLog == WithAttrs \/ WithGroup \/ Handle \/ HandleReturn

\* a part that a specification does not run stays in one fixed state
IdleRun ==
    /\ InitRun
    /\ variant = 1
    /\ appOutput = "text"
    /\ appNonInteractive = FALSE

IdlePct == InitPct

IdleRoot ==
    /\ InitRoot
    /\ aOutput = "text"
    /\ aNonInteractive = FALSE
    /\ flagChanged = FALSE
    /\ stdoutKind = "tty"
    /\ cmdName = "upload"
    /\ hasFileProcessor = FALSE
    /\ fpCounters.Errors = 0

Init == InitRun /\ IdlePct /\ IdleRoot /\ IdleJson /\ IdleLog
Next == NextRun
Spec == Init /\ [][Next]_vars

InitP == IdleRun /\ InitPct /\ IdleRoot /\ IdleJson /\ IdleLog
\* runNoUI in the interactive text mode, with a ticker that fires often enough
\* for the spinner to go round
InitSpin == InitRun /\ appOutput = "text" /\ ~appNonInteractive /\ IdlePct /\ IdleRoot /\ IdleJson /\ IdleLog
NextSpin == NextRun \/ RpTakeTickLate
SpecSpin == InitSpin /\ [][NextSpin]_vars

SpecPct == InitP /\ [][NextPct]_vars

SpecLock == InitP /\ [][NextLock]_vars

InitR == IdleRun /\ IdlePct /\ InitRoot /\ IdleJson /\ IdleLog
SpecRoot == InitR /\ [][NextRoot]_vars

InitJ == IdleRun /\ IdlePct /\ IdleRoot /\ InitJson /\ IdleLog
SpecJson == InitJ /\ [][NextJson]_vars

InitT == IdleRun /\ IdlePct /\ InitRoot /\ InitJson /\ IdleLog
SpecPost == InitT /\ [][NextPost]_vars

InitH == IdleRun /\ IdlePct /\ IdleRoot /\ IdleJson /\ InitLog
SpecLog == InitH /\ [][NextLog]_vars

\* the whole records of one type that stdout holds, in order
Records(type) == SelectSeq(stdout, LAMBDA t : t.type = type)

IsRecord(t) == t.type \in {"progress", "summary"}

\* ---------------------------------------------------------------- claims
PhaseErr(phase) == IF phase = "assets" THEN assetsErr ELSE IF phase = "albums" THEN albumsErr ELSE Nil

\* C1: whatever the outcome and the output mode, the reporting goroutine
\* renders exactly once after it has taken the closed stopProgress signal or
\* ctx.Done: once it has returned, the count of those renders is 1.
C1_ExactlyOneFinalRender == rpPC = "done" => finalRenders = 1

\* C2: if a discovery phase task returned an error (the caller's context being
\* live), uploadLoop is never called, and runNoUI returns the error of a phase
\* that failed; with only getImmichAlbums failing, that is the album error.
C2_PhaseFailureAborts ==
    (~parentCancelled /\ (assetsErr # Nil \/ albumsErr # Nil)) =>
        /\ uploadCalls = 0
        /\ mainPC = "returned" => result \in ({assetsErr, albumsErr} \ {Nil})

\* C3: when two phases failed, the one that failed first gives the value
\* runNoUI returns (the caller's context being live).
C3_FirstCauseWins ==
    (mainPC = "returned" /\ ~parentCancelled /\ Len(failSeq) >= 2) =>
        result = PhaseErr(failSeq[1])

\* C4: all phases, uploadLoop and finishing returned nil and an error-class
\* counter was non-zero when inspected: runNoUI returns the advisory message,
\* never nil, in every interleaving (the caller's context being live).
C4_AdvisoryReturned ==
    (/\ mainPC = "returned"
     /\ ~parentCancelled
     /\ grpErr = Nil /\ loopErr = Nil /\ finErr = Nil
     /\ finishingCalls = 1
     /\ ErrorClassSum(counts) > 0) =>
        result = AdvisoryMsg(variant)

\* C5: the value runNoUI returns is context.Cause of the derived context at
\* that moment (nil when there is none), and with a live caller's context it is
\* never the reporter's generic context.Canceled.
C5_ReturnIsCause ==
    mainPC = "returned" =>
        /\ result = causeAtReturn
        /\ ~parentCancelled => result # Canceled

\* C6: every getImmichPct result is the integer quotient 100*value/total of the
\* pair given to the most recent immichUpdate call when total > 0, and 100 when
\* total is 0 (the initial pair is 0, 0); negative values truncate toward zero.
C6_PctOfLastUpdate ==
    \A i \in 1..Len(pctSeq) :
        LET v == updSeq[i][1]
            t == updSeq[i][2]
            q == pctSeq[i]
        IN  /\ t = 0 => q = 100
            /\ (t > 0 /\ v >= 0) => (q * t <= 100 * v /\ 100 * v < (q + 1) * t)
            /\ (t > 0 /\ v < 0) => ((q - 1) * t < 100 * v /\ 100 * v <= q * t)

\* C6 witness: updates (50, 200) then (200, 200), read after each, give 25 then 100
C6_Witness ==
    /\ updSeq = << <<50, 200>>, <<200, 200>> >>
    /\ pctSeq = <<25, 100>>

\* successive reads made under one fixed total > 0 and a non-decreasing value
FixedTotalRun ==
    /\ Len(updSeq) >= 1
    /\ \A i \in 1..Len(updSeq) : updSeq[i][2] = updSeq[1][2] /\ updSeq[i][2] > 0
    /\ \A i \in 1..(Len(updSeq) - 1) : updSeq[i][1] <= updSeq[i + 1][1]

\* C7 as stated: under a fixed total > 0 and a non-decreasing value the results
\* are non-decreasing and every one lies in [0, 100].
C7_Original ==
    FixedTotalRun =>
        /\ \A i \in 1..(Len(pctSeq) - 1) : pctSeq[i] <= pctSeq[i + 1]
        /\ \A i \in 1..Len(pctSeq) : pctSeq[i] >= 0 /\ pctSeq[i] <= 100

\* C7 as amended: under a fixed total > 0 and a non-decreasing value the results
\* are non-decreasing; a result lies in [0, 100] when its value lies in
\* [0, total].
C7_MonotoneAndBounded ==
    FixedTotalRun =>
        /\ \A i \in 1..(Len(pctSeq) - 1) : pctSeq[i] <= pctSeq[i + 1]
        /\ \A i \in 1..Len(pctSeq) :
              (updSeq[i][1] >= 0 /\ updSeq[i][1] <= updSeq[i][2]) =>
                  (pctSeq[i] >= 0 /\ pctSeq[i] <= 100)

\* C7 witness: two reads under total 200 with the value rising from 50 to 150
C7_Witness ==
    /\ FixedTotalRun
    /\ Len(pctSeq) = 2
    /\ updSeq[1][1] = 50 /\ updSeq[2][1] = 150
    /\ pctSeq[1] < pctSeq[2]

\* C8: every render of a run uses the variant fixed at start: with Output
\* "json" only structured records are written (and the logger's report of a
\* failed write), never a carriage-return line or a stderr text line, also when
\* NonInteractive is set; in the two text modes no structured record is written
\* and the text variant is the mode's own.
C8_ModeExclusive ==
    /\ appOutput = "json" => kinds \subseteq {"json", "errlog"}
    /\ appOutput # "json" =>
          /\ "json" \notin kinds
          /\ appNonInteractive => kinds \subseteq {"log", "stderr"}
          /\ ~appNonInteractive => kinds \subseteq {"cr"}

\* C8 witness: a json run with NonInteractive set that rendered on a tick and
\* at the end
C8_Witness ==
    /\ appOutput = "json" /\ appNonInteractive
    /\ rpPC = "done"
    /\ tickRenders >= 1 /\ finalRenders >= 1
    /\ "json" \in kinds

\* C9: an --output value other than "text" and "json" makes PersistentPreRunE
\* return the "invalid output format" error before any of Config.Init,
\* Config.ProcessCommand, Config.Save and Log.Open has run.
C9_InvalidOutputRejected ==
    (rootPC # "start" /\ aOutput \notin {"text", "json"}) =>
        /\ preErr[1] = "invalid output format"
        /\ steps = <<>>
        /\ rootPC = "pre_done"

\* C9 witness: the hook has returned for --output=bad
C9_Witness == rootPC = "pre_done" /\ aOutput = "bad" /\ preErr # NoErr

\* C10 as stated: after PersistentPreRunE, NonInteractive has been set to true
\* exactly when it was false, the flag was not given and stdout is not a
\* character device; a given flag and a true value are left alone.
C10_Original ==
    rootPC # "start" =>
        /\ (aNonInteractive /\ ~niAtStart) <=>
               (~niAtStart /\ ~flagChanged /\ stdoutKind # "tty")
        /\ flagChanged => aNonInteractive = niAtStart
        /\ niAtStart => aNonInteractive

\* C10 as amended: in a call that passes the --output validation, NonInteractive
\* is set to true exactly when it was false, the flag was not given, and
\* os.Stdout.Stat succeeds and reports no character device; in every call a
\* given flag and a true value are left alone, and the value the hook leaves is
\* the value the command runs with.
C10_AutoDetect ==
    rootPC # "start" =>
        /\ (aNonInteractive /\ ~niAtStart) <=>
               (/\ aOutput \in {"text", "json"}
                /\ ~niAtStart /\ ~flagChanged /\ stdoutKind = "pipe")
        /\ flagChanged => aNonInteractive = niAtStart
        /\ niAtStart => aNonInteractive

\* C10 witness: the command has run after the hook switched NonInteractive on
\* for a piped stdout
C10_Witness ==
    /\ rootPC = "run_done"
    /\ ~niAtStart /\ ~flagChanged /\ stdoutKind = "pipe"
    /\ aNonInteractive

\* C13: the cancellation cause is a first-write-wins cell: once it is set no
\* later cancel call (advisory, deferred cancel(nil), parent) changes it.
C13_FirstWriteWins == [][cause # Nil => cause' = cause]_vars

\* C13 witness: uploadLoop failed, the advisory cancel was issued afterwards and
\* the cause is still the upload-loop error
C13_Witness ==
    /\ loopErr = ErrUpload
    /\ advisorySet
    /\ cause = ErrUpload
    /\ mainPC = "returned"

\* C14: when uploadLoop returned L and finishing returned F, the error runNoUI
\* returns holds both L and F (the caller's context being live).
C14_BothErrorsReported ==
    (mainPC = "returned" /\ ~parentCancelled /\ loopErr # Nil /\ finErr # Nil) =>
        (loopErr \subseteq result /\ finErr \subseteq result)

\* C15: phases and uploadLoop returned nil, no error-class counter is non-zero
\* and finishing returned F: runNoUI returns a non-nil error (the caller's
\* context being live).
C15_FinishingFailureReported ==
    (/\ mainPC = "returned"
     /\ ~parentCancelled
     /\ grpErr = Nil /\ loopErr = Nil
     /\ ErrorClassSum(counts) = 0
     /\ finErr # Nil) =>
        result # Nil

\* C16: the advisory cancel is issued only after uploadLoop and finishing have
\* both returned, so finishing never runs under a context the advisory
\* cancelled.
C16_AdvisoryAfterFinishing ==
    advisorySet => plPC \in {"close", "done"}

\* C17: uploadLoop is called at most once; once it has returned, finishing is
\* called exactly once, not before, also after an upload-loop error; a pipeline
\* goroutine that returned without closing stopProgress called neither.
C17_FinishingOnceAfterLoop ==
    /\ uploadCalls <= 1
    /\ finishingCalls <= uploadCalls
    /\ finishingCalls = 1 => plPC \in {"finishing", "close", "done"}
    /\ (plPC \in {"finishing", "close", "done"} /\ uploadCalls = 1) => finishingCalls = 1
    /\ (plPC = "done" /\ closeCount = 0) => (uploadCalls = 0 /\ finishingCalls = 0)

\* C17 witness: the pipeline goroutine returned after an upload-loop error and
\* finishing was called
C17_Witness ==
    /\ plPC = "done"
    /\ loopErr = ErrUpload
    /\ uploadCalls = 1 /\ finishingCalls = 1

\* C20: on a fully successful run (phases, uploadLoop and finishing nil, all
\* error-class counters zero, caller's context live) the derived context has no
\* cause when the result is computed, the reporter stopped through stopProgress
\* and returned nil, and runNoUI returns nil.
C20_CleanRun ==
    (/\ mainPC = "returned"
     /\ ~parentCancelled
     /\ grpErr = Nil /\ loopErr = Nil /\ finErr = Nil
     /\ finishingCalls = 1
     /\ ErrorClassSum(counts) = 0) =>
        /\ causeAtReturn = Nil
        /\ rpSaw = "stop" /\ rpRet = Nil
        /\ uiErr = Nil
        /\ result = Nil

\* C20 witness: a successful run that uploaded every group has returned
C20_Witness ==
    /\ mainPC = "returned"
    /\ ~parentCancelled
    /\ grpErr = Nil /\ loopErr = Nil /\ finErr = Nil
    /\ counts["ProcessedUploadSuccess"] = MaxGroups
    /\ ErrorClassSum(counts) = 0
    /\ result = Nil

\* C18: stopProgress is closed at most once and only once finishing has
\* returned; when the reporter has returned and the context was never
\* cancelled, its last render was made after finishing returned and shows the
\* final values of the counters it prints.
C18_CloseAfterFinishing ==
    /\ closeCount <= 1
    /\ stopProgress => (closeCount = 1 /\ finishingCalls = 1 /\ plPC = "done")
    /\ (rpPC = "done" /\ cause = Nil /\ lastRender # <<>>) =>
          /\ lastRender.finished
          /\ lastRender.upload_errors = counts["ErrorServerError"]
          /\ lastRender.uploaded = counts["ProcessedUploadSuccess"]

\* C18 witness: a run without cancellation whose reporter rendered on a tick
\* and whose final render shows every group uploaded
C18_Witness ==
    /\ rpPC = "done" /\ cause = Nil
    /\ tickRenders >= 1
    /\ lastRender # <<>>
    /\ lastRender.finished
    /\ lastRender.uploaded = MaxGroups

\* ---------------------------------------------------------------- liveness
\* Every collaborator call returns and the Go scheduler runs every runnable
\* goroutine: each goroutine's enabled steps are eventually taken.  Ticks and
\* the caller's cancellation are under no obligation to happen.
ReporterSteps == RpPark \/ RpTickRender \/ RpTakeStop \/ RpTakeCtx \/ RpDefer
PhaseSteps == AssetsReturn \/ AlbumsReturn \/ BrowseReturn
PipelineSteps ==
    \/ PhaseJoin \/ UploadLoopReturn \/ InspectCounts \/ FinishingReturn \/ CloseStop
MainSteps == RunReturn \/ DeferCancel

Fairness ==
    /\ WF_vars(ReporterSteps)
    /\ WF_vars(AssetsReturn) /\ WF_vars(AlbumsReturn) /\ WF_vars(BrowseReturn)
    /\ WF_vars(PipelineSteps)
    /\ WF_vars(MainSteps)

SpecLive == Init /\ [][Next]_vars /\ Fairness

\* C19: runNoUI eventually returns; whenever the pipeline goroutine has
\* returned, stopProgress is closed or the context is cancelled; runNoUI
\* returns only after both goroutines have returned, and nothing is rendered
\* after that.
C19_Terminates ==
    /\ <>(mainPC = "exited")
    /\ [](plPC = "done" => (stopProgress \/ cause # Nil))
    /\ [](mainPC # "waiting" => (rpPC = "done" /\ plPC = "done"))
    /\ [][mainPC # "waiting" => UNCHANGED renderVars]_vars

\* C19 witness: runNoUI has returned after the pipeline goroutine aborted at
\* the phase join, the reporter having left through ctx.Done
C19_Witness ==
    /\ mainPC = "exited"
    /\ uploadCalls = 0
    /\ ~stopProgress
    /\ rpSaw = "ctx"
    /\ ~parentCancelled

\* C11: every WriteSummary call that returns nil has put exactly one record of
\* type "summary" on stdout, and no other call has put one: the status, exit
\* code, counters and duration are the arguments, and events has one entry per
\* code of eventCounts, keyed by the code's name, holding eventCounts[code] and
\* eventSizes[code] (0 when eventSizes lacks the code); a code that only
\* eventSizes holds has no entry.
C11_SummaryRecord ==
    LET recs == Records("summary")
        args == jdone["summary"]
    IN  /\ Len(recs) = Len(args)
        /\ \A i \in 1..Len(recs) :
              LET r == recs[i]
                  a == args[i]
              IN  /\ r.status = a.status
                  /\ r.exit_code = a.exitCode
                  /\ r.counters = a.counters
                  /\ r.duration_seconds = a.duration
                  /\ DOMAIN r.events = {CodeName(c) : c \in DOMAIN a.eventCounts}
                  /\ \A c \in DOMAIN a.eventCounts :
                        /\ r.events[CodeName(c)].count = a.eventCounts[c]
                        /\ r.events[CodeName(c)].size =
                              (IF c \in DOMAIN a.eventSizes THEN a.eventSizes[c] ELSE 0)

\* the call of TestWriteSummaryOutputsJSONLine has returned nil
C11_Witness ==
    /\ Len(jdone["summary"]) = 1
    /\ DOMAIN jdone["summary"][1].eventCounts = {"ErrorServerError", "ProcessedUploadSuccess"}
    /\ DOMAIN jdone["summary"][1].eventSizes = {"ErrorServerError"}
    /\ Len(Records("summary")) = 1
    /\ Records("summary")[1].events[CodeName("ProcessedUploadSuccess")].size = 0

\* C12: every WriteProgress call that returns nil has put exactly one record of
\* type "progress" with its four values on stdout, and no other call has put
\* one; each call hands stdout at most one buffer; on stdout every record is
\* directly followed by its newline and every newline directly follows a
\* record, whichever goroutines wrote them.
C12_ProgressLineAtomic ==
    LET recs == Records("progress")
        args == jdone["progress"]
    IN  /\ Len(recs) = Len(args)
        /\ \A i \in 1..Len(recs) :
              /\ recs[i].immich_read_pct = args[i].immichPct
              /\ recs[i].assets_found = args[i].totalAssets
              /\ recs[i].upload_errors = args[i].uploadErrors
              /\ recs[i].uploaded = args[i].uploaded
        /\ nWrites <= nCalls["progress"] + nCalls["summary"]
        /\ \A i \in 1..Len(stdout) :
              /\ IsRecord(stdout[i]) => (i < Len(stdout) /\ stdout[i + 1] = NL)
              /\ stdout[i] = NL => (i > 1 /\ IsRecord(stdout[i - 1]))

\* a progress line is on stdout while a progress call and the summary call are
\* both about to write
C12_Witness ==
    /\ jcall["progress"].pc = "write"
    /\ jcall["summary"].pc = "write"
    /\ Len(Records("progress")) = 1
    /\ Len(jdone["progress"]) = 1

\* C21: the pipeline goroutine is past processGrp.Wait() only when the three
\* phase tasks have returned; whenever uploadLoop has been called or has
\* consumed a group, all three have returned and Browse has assigned groupChan.
C21_UploadAfterJoin ==
    LET joined == assetsPC = "done" /\ albumsPC = "done" /\ browsePC = "done"
    IN  /\ plPC # "wait" => joined
        /\ uploadCalls > 0 => (joined /\ groupChanSet)
        /\ groupsDone > 0 => (joined /\ groupChanSet /\ uploadCalls > 0)
        /\ groupChanSet <=> browsePC = "done"

\* uploadLoop is consuming groups after a join in which a phase task failed
C21_Witness ==
    /\ plPC = "upload"
    /\ groupsDone = 1
    /\ uploadCalls = 1
    /\ albumsErr = ErrAlbums
    /\ groupChanSet

\* the loads of every finished getImmichPct call and the exclusion of the two
\* critical sections
PairReadWhole ==
    /\ rdPC # "panic"
    /\ Len(readSeq) = Len(pctSeq)
    /\ \A i \in 1..Len(readSeq) :
          /\ readSeq[i].curr = updSeq[i][1]
          /\ readSeq[i].max = updSeq[i][2]
          /\ readSeq[i].test = updSeq[i][2]
          /\ pctSeq[i] = GetImmichPct(updSeq[i][1], updSeq[i][2])
    /\ rdPC \in {"test", "curr", "max", "unlock"} =>
          (lock /\ updPC = "idle" /\ <<currImmich, maxImmich>> = lastUpdate)
    /\ updPC # "idle" => (lock /\ rdPC = "idle")

\* C22: with immichUpdate and getImmichPct running concurrently, the three
\* loads of every getImmichPct call give the value and the total that one
\* immichUpdate call stored together (or the initial 0, 0), namely those of the
\* last call to have stored its pair, and the result is getImmichPct's result
\* for that pair; the division never meets a zero total; currImmich and
\* maxImmich change only in the two stores of an immichUpdate call that holds
\* the lock while no read is in progress.
C22_PairWrittenTogether ==
    /\ []PairReadWhole
    /\ [][(currImmich' # currImmich \/ maxImmich' # maxImmich)
             => (lock /\ updPC \in {"curr", "max"} /\ rdPC = "idle")]_vars

\* a read waits for the lock while immichUpdate has stored the value of a new
\* pair but not yet its total, after an earlier read of another pair
C22_Witness ==
    /\ updPC = "max"
    /\ currImmich # lastUpdate[1]
    /\ maxImmich # updArgs[2]
    /\ rdPC = "idle"
    /\ Len(pctSeq) = 1
    /\ updSeq[1] = <<50, 200>>
    /\ pctSeq[1] = 25

\* render calls made so far
Renders == tickRenders + finalRenders

\* C23: in interactive mode (Output "text", NonInteractive unset) every render
\* call, the final ones included, shows the frame spinner[spinIdx] of the index
\* held before the call and then advances the index by one modulo 5; the index
\* counts the render calls modulo 5 and is in 0..4 in every state.
C23_SpinnerAdvances ==
    /\ [](/\ spinIdx \in 0..(SpinnerLen - 1)
          /\ spinIdx = Renders % SpinnerLen
          /\ Renders > 0 =>
                /\ lastRender.frameIdx = (Renders - 1) % SpinnerLen
                /\ lastRender.frame = Spinner[lastRender.frameIdx + 1])
    /\ [][Renders' # Renders =>
             /\ Renders' = Renders + 1
             /\ spinIdx' = (spinIdx + 1) % SpinnerLen
             /\ lastRender'.frameIdx = spinIdx]_vars

\* the seventh render of a run, the second of the two final ones, has shown
\* frame 1 after the index went round
C23_Witness ==
    /\ variant = 2
    /\ rpPC = "done"
    /\ tickRenders = MaxSpinTicks
    /\ finalRenders = 2
    /\ lastRender.frameIdx = 1
    /\ spinIdx = 2

\* C24: PersistentPostRunE calls WriteSummary, and a summary record reaches
\* stdout, only with Output "json", a FileProcessor and a command other than
\* upload, and in that case it does call it; the record carries the
\* FileProcessor's counters, with status "error" and exit code 1 exactly when
\* counters.Errors > 0 and "success" and 0 otherwise; a WriteSummary error is
\* given to a.Log().Error, and PersistentPostRunE returns nil.
C24_PostRunSummary ==
    LET due == aOutput = "json" /\ hasFileProcessor /\ cmdName # "upload"
        recs == Records("summary")
    IN  /\ (nCalls["summary"] > 0 \/ Len(recs) > 0) => due
        /\ nCalls["summary"] = 0 => stdout = <<>>
        /\ Len(recs) <= 1
        /\ \A i \in 1..Len(recs) :
              /\ recs[i].counters = fpCounters
              /\ (recs[i].status = "error") = (fpCounters.Errors > 0)
              /\ (recs[i].exit_code = 1) = (fpCounters.Errors > 0)
              /\ (recs[i].status = "success") = ~(fpCounters.Errors > 0)
              /\ (recs[i].exit_code = 0) = ~(fpCounters.Errors > 0)
        /\ rootPC \in {"post_write", "post_done"} => (due <=> nCalls["summary"] = 1)
        /\ rootPC = "post_done" =>
              /\ postErr = NoErr
              /\ (due /\ jret["summary"] # Nil) <=> postLogged # {}
              /\ (due /\ jret["summary"] = Nil) <=> Len(recs) = 1

\* the stack command ended with errors counted and its summary was written
C24_Witness ==
    /\ rootPC = "post_done"
    /\ cmdName = "stack"
    /\ fpCounters.Errors > 0
    /\ Len(Records("summary")) = 1
    /\ Records("summary")[1].status = "error"
    /\ Records("summary")[1].exit_code = 1

\* the summary could not be written: the failure is logged and the hook
\* returns nil
C24_WitnessWriteFails ==
    /\ rootPC = "post_done"
    /\ jret["summary"] = ErrWrite
    /\ postLogged = {"failed to write JSON summary"}
    /\ postErr = NoErr

\* C25: whatever WithAttrs and WithGroup calls produced the handler, Handle
\* returns nil without calling the wrapped handler exactly when the record's
\* level is Error or higher and one of the record's attributes holds an error
\* that errors.Is matches with context.Canceled; every other record, whatever
\* its level, is passed to the wrapped handler exactly once, unchanged, and
\* Handle returns what the wrapped handler returned.
C25_FilterCanceled ==
    LET cancelled == \E i \in 1..Len(lgRec.attrs) :
                        /\ lgRec.attrs[i].kind = "error"
                        /\ "context canceled" \in lgRec.attrs[i].tree
        drop == lgRec.level >= 8 /\ cancelled
    IN  lgPC = "return" =>
           /\ drop => (lgFwd = <<>> /\ lgRet = Nil)
           /\ ~drop => (lgFwd = <<lgRec>> /\ lgRet = lgInnerRet)

\* an Error record holding a wrapped context.Canceled after another error was
\* dropped by a handler that WithGroup and WithAttrs returned
C25_Witness ==
    /\ lgPC = "return"
    /\ Len(fhInner) = MaxWith
    /\ fhInner[1].op = "group" /\ fhInner[2].op = "attrs"
    /\ lgRec.level = LevelError
    /\ Len(lgRec.attrs) = 2
    /\ lgRec.attrs[1].tree = {"context canceled (errors.New)"}
    /\ lgRec.attrs[2].tree = {"read"} \cup Canceled
    /\ lgFwd = <<>>

====
